---- MODULE Spec2Model ----
(***************************************************************************)
(* ChatPage (src/src/ChatPage.jsx): the chat client's React state, its     *)
(* mount effect, fetchHistory, handleSend with the typing animation, and   *)
(* handleResetSession, as a state machine.  Every await and every timer    *)
(* callback is a separate step, so that steps of different handlers        *)
(* interleave the way the browser's event loop lets them.                  *)
(*                                                                         *)
(* Text (input, message content, session ids) is a sequence of one-char    *)
(* strings.  A value that may be absent (localStorage.getItem's null, a    *)
(* missing `history` field) is a set with at most one element.             *)
(***************************************************************************)
EXTENDS Integers, Sequences, FiniteSets

\* ------------------------------------------------------------- bounds
\* accepted sends (handleSend calls that pass the guard) in one behaviour
MaxSends == 2
\* handleResetSession calls in one behaviour
MaxResets == 1
\* length of the longest assistant reply the backend returns
MaxReplyLen == 2

\* ------------------------------------------------------------- text
WhiteSpace == {" "}

RECURSIVE TrimStart(_)
TrimStart(s) ==
  IF s # <<>> /\ Head(s) \in WhiteSpace THEN TrimStart(Tail(s)) ELSE s

RECURSIVE TrimEnd(_)
TrimEnd(s) ==
  IF s # <<>> /\ s[Len(s)] \in WhiteSpace
  THEN TrimEnd(SubSeq(s, 1, Len(s) - 1))
  ELSE s

\* String.prototype.trim
Trim(s) == TrimEnd(TrimStart(s))

DigitChars == <<"0", "1", "2", "3", "4", "5", "6", "7", "8", "9">>

\* Number.prototype.toString, for a non-negative integer
RECURSIVE ToString(_)
ToString(n) ==
  IF n < 10 THEN <<DigitChars[n + 1]>>
  ELSE Append(ToString(n \div 10), DigitChars[(n % 10) + 1])

\* ------------------------------------------------------------- session id
IdBase == 100000
IdSpan == 900000
\* Math.random() is k / (IdSpan * RandomScale) for a k in RandomSamples
RandomScale == 2
RandomSamples == {0, 1, (IdSpan * RandomScale) - 1}

\* GenerateId without the 100000 added
GenerateId_NoBase(k) == ToString(k \div RandomScale)

\* Math.floor(100000 + Math.random() * 900000).toString(), Math.random()
\* being k / (IdSpan * RandomScale)
GenerateId(k) == ToString(IdBase + (k \div RandomScale))

\* localStorage: a set of <<key, value>> pairs, one per key
getItem(store, key) == {kv[2] : kv \in {p \in store : p[1] = key}}
setItem(store, key, value) ==
  {p \in store : p[1] # key} \cup {<<key, value>>}

\* the one element of a one-element set
TheOne(opt) == CHOOSE v \in opt : TRUE

\* !x for a string-or-null x
FalsyText(opt) == opt = {} \/ opt = {<<>>}

\* ids a previous visit may have left in localStorage
EarlierIds == {GenerateId(900001)}

\* ------------------------------------------------------------- messages
Msg(role, content) == [role |-> role, content |-> content]

ReplyText == <<"h", "i", "!", "?">>
\* the assistant replies the backend produces: the empty one and a long one
Replies == {<<>>, SubSeq(ReplyText, 1, MaxReplyLen)}

\* what the user types into the input field
InputTexts == {<<" ">>, <<"a">>}

\* a transcript the backend holds from an earlier visit
EarlierHistory == <<Msg("user", <<"a">>), Msg("assistant", <<"o">>)>>

\* x || dflt, for an array-or-undefined x
OrElse(opt, dflt) == IF opt = {} THEN dflt ELSE TheOne(opt)

\* HistoryOrEmpty reading a field the body does not have
HistoryOrEmpty_WrongField(data) == <<>>

\* data.history || []   (fetchHistory)
HistoryOrEmpty(data) == OrElse(data.history, <<>>)

\* data.history || optimistic   (handleSend)
FullHistory(data, optimistic) == OrElse(data.history, optimistic)

\* fullHistory[fullHistory.length - 1], absent for an empty array
LastBot(fullHistory) ==
  IF fullHistory = <<>> THEN {} ELSE {fullHistory[Len(fullHistory)]}

\* !lastBot || lastBot.role !== "assistant"
NoBotReply(lastBot) == lastBot = {} \/ TheOne(lastBot).role # "assistant"

\* ------------------------------------------------------------- errors
NoError == ""
OverloadedError == "Gemini API is overloaded. Please try again in a few seconds."
GenericError == "Something went wrong. Please try again."
NetworkError == "Network error. Please try again."

StatusOverloaded == 503
\* the statuses the backend answers with: ok, a server error, overloaded
Statuses == {200, 500, StatusOverloaded}

\* res.ok
ResOk(status) == status >= 200 /\ status <= 299

\* ErrorForStatus taking every server error for an overload
ErrorForStatus_AnyServerError(status) ==
  IF status >= 500 THEN OverloadedError ELSE GenericError

\* the message handleSend shows for a non-ok status
ErrorForStatus(status) ==
  IF status = StatusOverloaded THEN OverloadedError ELSE GenericError

\* ------------------------------------------------------------- backend
\* bodies of a successful GET /api/session/{id}/history
HistoryBodies == {[history |-> {}], [history |-> {EarlierHistory}]}

\* bodies of a successful POST /api/chat answering the send s: no history
\* field, an empty history, a history ending in the user's message, the sent
\* transcript followed by an assistant reply, and the backend's own record of
\* the session (which holds an earlier transcript the page never loaded)
\* followed by the user's message and the reply
ChatBodies(s) ==
  {[history |-> {}], [history |-> {<<>>}], [history |-> {s.optimistic}]}
    \cup {[history |-> {Append(s.optimistic, Msg("assistant", r))}] :
            r \in Replies}
    \cup {[history |-> {EarlierHistory \o
                          <<Msg("user", s.userMessage),
                            Msg("assistant", SubSeq(ReplyText, 1, MaxReplyLen))>>}]}

\* ------------------------------------------------------------- state
VARIABLES
  sessionId,     \* useState("")
  messages,      \* useState([])
  input,         \* useState("")
  loading,       \* useState(false)
  error,         \* useState("")
  localStorage,  \* the browser's localStorage
  mounted,       \* the mount effect has run
  hist,          \* the fetchHistory call of the mount effect
  sends,         \* the accepted handleSend calls, in order of acceptance
  resets,        \* the handleResetSession calls, in order
  requests,      \* how many requests of each kind were issued
  auth,          \* the last transcript of the backend, returned for
                 \* sessionId, that was put on display
  last           \* the step taken last

vars ==
  <<sessionId, messages, input, loading, error, localStorage, mounted, hist,
    sends, resets, requests, auth, last>>

SendIds == 1 .. Len(sends)
ResetIds == 1 .. Len(resets)

\* the step taken last: the operation, the call it belongs to, and for a
\* settled clear request how it settled
Step(op, i) == [op |-> op, i |-> i, how |-> ""]

Init ==
  /\ sessionId = <<>>
  /\ messages = <<>>
  /\ input = <<>>
  /\ loading = FALSE
  /\ error = NoError
  /\ localStorage \in {{}} \cup {{<<"sessionId", id>>} : id \in EarlierIds}
  /\ mounted = FALSE
  /\ hist = [pc |-> "idle", id |-> <<>>, body |-> {}]
  /\ sends = <<>>
  /\ resets = <<>>
  /\ requests = [history |-> 0, chat |-> 0, clear |-> 0]
  /\ auth = <<>>
  /\ last = Step("init", 0)

\* ------------------------------------------------------------- mount effect
\* LoadOrCreateId without the localStorage.setItem of the fresh id
LoadOrCreateId_NotStored(store, k) ==
  LET got == getItem(store, "sessionId")
  IN IF FalsyText(got)
     THEN [id |-> GenerateId(k), store |-> store]
     ELSE [id |-> TheOne(got), store |-> store]

\* lines 18-22: the stored id, or a fresh one written to localStorage
LoadOrCreateId(store, k) ==
  LET got == getItem(store, "sessionId")
  IN IF FalsyText(got)
     THEN [id |-> GenerateId(k),
           store |-> setItem(store, "sessionId", GenerateId(k))]
     ELSE [id |-> TheOne(got), store |-> store]

Mount ==
  /\ ~mounted
  /\ \E k \in RandomSamples :
       LET r == LoadOrCreateId(localStorage, k)
       IN /\ localStorage' = r.store
          /\ sessionId' = r.id
          /\ hist' = [pc |-> "fetch", id |-> r.id, body |-> {}]
  /\ mounted' = TRUE
  /\ requests' = [requests EXCEPT !.history = @ + 1]
  /\ last' = Step("mount", 0)
  /\ UNCHANGED <<messages, input, loading, error, sends, resets, auth>>

\* ------------------------------------------------------------- fetchHistory
\* lines 34-43: the request settles.  A rejected fetch and a rejected
\* res.json() are caught, a non-ok status returns, and a parsed body sets the
\* transcript; nothing is written between the two awaits, so they are one step
HistorySettles ==
  /\ hist.pc = "fetch"
  /\ \/ /\ \E rejected \in BOOLEAN, status \in Statuses :
             rejected \/ ~ResOk(status)
        /\ hist' = [hist EXCEPT !.pc = "done"]
        /\ last' = Step("historyFailed", 0)
        /\ UNCHANGED <<messages, auth>>
     \/ \E data \in HistoryBodies :
          /\ messages' = HistoryOrEmpty(data)
          /\ auth' = IF hist.id = sessionId THEN HistoryOrEmpty(data) ELSE auth
          /\ hist' = [hist EXCEPT !.pc = "done", !.body = {data}]
          /\ last' = Step("historyLoaded", 0)
  /\ UNCHANGED <<sessionId, input, loading, error, localStorage, mounted,
                 sends, resets, requests>>

\* ------------------------------------------------------------- input field
\* onChange={(e) => setInput(e.target.value)}
SetInput(v) ==
  /\ input' = v
  /\ last' = Step("input", 0)
  /\ UNCHANGED <<sessionId, messages, loading, error, localStorage, mounted,
                 hist, sends, resets, requests, auth>>

\* ------------------------------------------------------------- handleSend
\* SendIgnored without the trim
SendIgnored_NoTrim(text, sid) == text = <<>> \/ sid = <<>>

\* line 48: !input.trim() || !sessionId
SendIgnored(text, sid) == Trim(text) = <<>> \/ sid = <<>>

\* SendDisabled without the loading flag
SendDisabled_IgnoresLoading == Trim(input) = <<>>

\* disabled={loading || !input.trim()} of the send button
SendDisabled == loading \/ Trim(input) = <<>>

\* lines 53-58: what an accepted call keeps in its closure
NewSend(msgs, text, sid) ==
  [pc |-> "fetch", sessionId |-> sid, userMessage |-> text,
   previousMessages |-> msgs,
   optimistic |-> Append(msgs, Msg("user", text)),
   status |-> 0, outcome |-> "pending", body |-> {},
   fullHistory |-> <<>>, fullText |-> <<>>, index |-> 0, typedBot |-> <<>>]

\* HandleSend without the setLoading(true)
HandleSend_NoLoading ==
  IF SendIgnored(input, sessionId)
  THEN /\ last' = Step("sendIgnored", 0)
       /\ UNCHANGED <<sessionId, messages, input, loading, error,
                      localStorage, mounted, hist, sends, resets, requests,
                      auth>>
  ELSE /\ Len(sends) < MaxSends
       /\ error' = NoError
       /\ loading' = loading
       /\ sends' = Append(sends, NewSend(messages, input, sessionId))
       /\ messages' = NewSend(messages, input, sessionId).optimistic
       /\ requests' = [requests EXCEPT !.chat = @ + 1]
       /\ last' = Step("sendStarted", Len(sends) + 1)
       /\ UNCHANGED <<sessionId, input, localStorage, mounted, hist, resets,
                      auth>>

\* lines 46-66: the call up to its first await
HandleSend ==
  IF SendIgnored(input, sessionId)
  THEN /\ last' = Step("sendIgnored", 0)
       /\ UNCHANGED <<sessionId, messages, input, loading, error,
                      localStorage, mounted, hist, sends, resets, requests,
                      auth>>
  ELSE /\ Len(sends) < MaxSends
       /\ error' = NoError
       /\ loading' = TRUE
       /\ sends' = Append(sends, NewSend(messages, input, sessionId))
       /\ messages' = NewSend(messages, input, sessionId).optimistic
       /\ requests' = [requests EXCEPT !.chat = @ + 1]
       /\ last' = Step("sendStarted", Len(sends) + 1)
       /\ UNCHANGED <<sessionId, input, localStorage, mounted, hist, resets,
                      auth>>

\* RollbackTarget leaving the optimistic transcript on display
RollbackTarget_Optimistic(s) == s.optimistic

\* lines 73 and 128: the transcript a failed send puts back
RollbackTarget(s) == s.previousMessages

\* Caught without the finally block
Caught_KeepsLoading(i) ==
  /\ messages' = RollbackTarget(sends[i])
  /\ error' = NetworkError
  /\ loading' = loading
  /\ sends' = [sends EXCEPT ![i].pc = "done", ![i].outcome = "throw"]
  /\ last' = Step("sendFailed", i)
  /\ UNCHANGED <<sessionId, input, localStorage, mounted, hist, resets,
                 requests, auth>>

\* Caught with the setInput("") of line 125 in the finally block
Caught_ClearsInput(i) ==
  /\ messages' = RollbackTarget(sends[i])
  /\ error' = NetworkError
  /\ loading' = FALSE
  /\ input' = <<>>
  /\ sends' = [sends EXCEPT ![i].pc = "done", ![i].outcome = "throw"]
  /\ last' = Step("sendFailed", i)
  /\ UNCHANGED <<sessionId, localStorage, mounted, hist, resets, requests,
                 auth>>

\* Caught issuing the request again
Caught_Retries(i) ==
  /\ messages' = RollbackTarget(sends[i])
  /\ error' = NetworkError
  /\ loading' = FALSE
  /\ requests' = [requests EXCEPT !.chat = @ + 1]
  /\ last' = Step("sendFailed", i)
  /\ UNCHANGED <<sessionId, input, localStorage, mounted, hist, resets,
                 sends, auth>>

\* lines 126-132: catch and finally
Caught(i) ==
  /\ messages' = RollbackTarget(sends[i])
  /\ error' = NetworkError
  /\ loading' = FALSE
  /\ sends' = [sends EXCEPT ![i].pc = "done", ![i].outcome = "throw"]
  /\ last' = Step("sendFailed", i)
  /\ UNCHANGED <<sessionId, input, localStorage, mounted, hist, resets,
                 requests, auth>>

\* lines 62-85: the request settles with a non-ok status.  A rejected
\* res.text() is caught; nothing is written between the two awaits
ChatRefused(i) ==
  /\ sends[i].pc = "fetch"
  /\ \E status \in {c \in Statuses : ~ResOk(c)} :
       \/ Caught(i)
       \/ /\ messages' = RollbackTarget(sends[i])
          /\ error' = ErrorForStatus(status)
          /\ loading' = FALSE
          /\ sends' = [sends EXCEPT ![i].pc = "done", ![i].status = status,
                                    ![i].outcome = "status"]
          /\ last' = Step("sendFailed", i)
          /\ UNCHANGED <<sessionId, input, localStorage, mounted, hist,
                         resets, requests, auth>>

\* TypeNextChar advancing the index by two
TypeNextChar_SkipsOne(s) ==
  IF s.index < Len(s.fullText)
  THEN LET typed == Append(s.typedBot, s.fullText[s.index + 1])
       IN [send |-> [s EXCEPT !.typedBot = typed, !.index = @ + 2,
                              !.pc = "anim"],
           messages |-> Append(s.optimistic, Msg("assistant", typed))]
  ELSE [send |-> [s EXCEPT !.pc = "done"], messages |-> s.fullHistory]

\* TypeNextChar ending on what it typed instead of the returned history
TypeNextChar_KeepsTyped(s) ==
  IF s.index < Len(s.fullText)
  THEN LET typed == Append(s.typedBot, s.fullText[s.index + 1])
       IN [send |-> [s EXCEPT !.typedBot = typed, !.index = @ + 1,
                              !.pc = "anim"],
           messages |-> Append(s.optimistic, Msg("assistant", typed))]
  ELSE [send |-> [s EXCEPT !.pc = "done"],
        messages |-> Append(s.optimistic, Msg("assistant", s.typedBot))]

\* lines 108-121: one call of typeNextChar in the closure of the send s
TypeNextChar(s) ==
  IF s.index < Len(s.fullText)
  THEN LET typed == Append(s.typedBot, s.fullText[s.index + 1])
       IN [send |-> [s EXCEPT !.typedBot = typed, !.index = @ + 1,
                              !.pc = "anim"],
           messages |-> Append(s.optimistic, Msg("assistant", typed))]
  ELSE [send |-> [s EXCEPT !.pc = "done"], messages |-> s.fullHistory]

\* auth once the send s has taken a step: the history of its response, when
\* that step put it on display and it was returned for the current session
Displayed(s) ==
  IF s.pc = "done" /\ s.outcome = "ok" /\ TheOne(s.body).history # {}
     /\ s.sessionId = sessionId
  THEN TheOne(TheOne(s.body).history)
  ELSE auth

\* lines 62-66 and 126-132: the fetch is rejected
ChatThrows(i) == sends[i].pc = "fetch" /\ Caught(i)

\* lines 62-66, 88-125 and 131: the request settles with an ok status.  A
\* rejected res.json() is caught; nothing is written between the two awaits
ChatAnswered(i) ==
  /\ sends[i].pc = "fetch"
  /\ \/ Caught(i)
     \/ \E data \in ChatBodies(sends[i]), status \in {c \in Statuses : ResOk(c)} :
          LET fullHistory == FullHistory(data, sends[i].optimistic)
              lastBot == LastBot(fullHistory)
              s == [sends[i] EXCEPT !.outcome = "ok", !.body = {data},
                                    !.status = status,
                                    !.fullHistory = fullHistory]
          IN /\ IF NoBotReply(lastBot)
                THEN /\ messages' = fullHistory
                     /\ sends' = [sends EXCEPT ![i] = [s EXCEPT !.pc = "done"]]
                     /\ input' = input
                     /\ last' = Step("sendShown", i)
                ELSE LET t == TypeNextChar(
                                [s EXCEPT !.fullText = TheOne(lastBot).content])
                     IN /\ messages' = t.messages
                        /\ sends' = [sends EXCEPT ![i] = t.send]
                        /\ input' = <<>>
                        /\ last' = Step(IF t.send.pc = "done"
                                        THEN "sendEmptyReply"
                                        ELSE "sendTyping", i)
             /\ loading' = FALSE
             /\ auth' = Displayed(sends'[i])
             /\ UNCHANGED <<sessionId, error, localStorage, mounted, hist,
                            resets, requests>>

\* line 116: the timer of a running animation fires
Tick(i) ==
  /\ sends[i].pc = "anim"
  /\ LET t == TypeNextChar(sends[i])
     IN /\ messages' = t.messages
        /\ sends' = [sends EXCEPT ![i] = t.send]
        /\ last' = Step(IF t.send.pc = "done" THEN "sendTyped" ELSE "tick", i)
        /\ auth' = Displayed(t.send)
  /\ UNCHANGED <<sessionId, input, loading, error, localStorage, mounted,
                 hist, resets, requests>>

\* ------------------------------------------------------------- handleResetSession
\* FinishReset without the setError("")
FinishReset_KeepsError(k) ==
  /\ localStorage' = setItem(localStorage, "sessionId", GenerateId(k))
  /\ sessionId' = GenerateId(k)
  /\ messages' = <<>>
  /\ error' = error
  /\ auth' = <<>>

\* lines 148-157: the new id and the cleared state
FinishReset(k) ==
  /\ localStorage' = setItem(localStorage, "sessionId", GenerateId(k))
  /\ sessionId' = GenerateId(k)
  /\ messages' = <<>>
  /\ error' = NoError
  /\ auth' = <<>>

\* a call of handleResetSession: where it is, the session id its clear
\* request is addressed to, and how many sends had been accepted when it
\* finished
NewReset(pc, sid, n) == [pc |-> pc, sessionId |-> sid, sendsBefore |-> n]

\* HandleResetSession with step 4 (clear UI state) before the clear request
HandleResetSession_ClearsFirst ==
  /\ Len(resets) < MaxResets
  /\ IF sessionId # <<>>
     THEN /\ resets' = Append(resets, NewReset("clear", sessionId, 0))
          /\ requests' = [requests EXCEPT !.clear = @ + 1]
          /\ last' = Step("resetStarted", Len(resets) + 1)
          /\ messages' = <<>>
          /\ error' = NoError
          /\ UNCHANGED <<sessionId, localStorage, auth>>
     ELSE /\ resets' = Append(resets, NewReset("done", sessionId, Len(sends)))
          /\ \E k \in RandomSamples : FinishReset(k)
          /\ last' = Step("resetDone", Len(resets) + 1)
          /\ UNCHANGED requests
  /\ UNCHANGED <<input, loading, mounted, hist, sends>>

\* lines 136-143: the call up to its await; with no session id there is no
\* request and the call runs to its end
HandleResetSession ==
  /\ Len(resets) < MaxResets
  /\ IF sessionId # <<>>
     THEN /\ resets' = Append(resets, NewReset("clear", sessionId, 0))
          /\ requests' = [requests EXCEPT !.clear = @ + 1]
          /\ last' = Step("resetStarted", Len(resets) + 1)
          /\ UNCHANGED <<sessionId, messages, error, localStorage, auth>>
     ELSE /\ resets' = Append(resets, NewReset("done", sessionId, Len(sends)))
          /\ \E k \in RandomSamples : FinishReset(k)
          /\ last' = Step("resetDone", Len(resets) + 1)
          /\ UNCHANGED requests
  /\ UNCHANGED <<input, loading, mounted, hist, sends>>

\* lines 140-157: the clear request settles (resolved with any status, or
\* rejected and caught) and the call runs to its end
ClearSettles(j) ==
  /\ resets[j].pc = "clear"
  /\ resets' = [resets EXCEPT ![j].pc = "done", ![j].sendsBefore = Len(sends)]
  /\ \E how \in {"ok", "status", "throw"} :
       last' = [Step("resetDone", j) EXCEPT !.how = how]
  /\ \E k \in RandomSamples : FinishReset(k)
  /\ UNCHANGED <<input, loading, mounted, hist, sends, requests>>

\* ------------------------------------------------------------- the page
\* the user types
Type == mounted /\ \E v \in InputTexts : SetInput(v)

\* the user submits the form through the send button
Submit == mounted /\ ~SendDisabled /\ HandleSend

\* the user clicks "Reset session"
ClickReset == mounted /\ HandleResetSession

Next ==
  \/ Mount
  \/ Type
  \/ Submit
  \/ ClickReset
  \/ HistorySettles
  \/ \E i \in SendIds : ChatThrows(i)
  \/ \E i \in SendIds : ChatRefused(i)
  \/ \E i \in SendIds : ChatAnswered(i)
  \/ \E i \in SendIds : Tick(i)
  \/ \E j \in ResetIds : ClearSettles(j)

Spec == Init /\ [][Next]_vars

\* the handlers called directly, whatever the page shows: handleSend while the
\* send button is disabled, and any handler before the mount effect has run
NextHandler ==
  \/ Mount
  \/ \E v \in InputTexts : SetInput(v)
  \/ HandleSend
  \/ HandleResetSession
  \/ HistorySettles
  \/ \E i \in SendIds : ChatThrows(i)
  \/ \E i \in SendIds : ChatRefused(i)
  \/ \E i \in SendIds : ChatAnswered(i)
  \/ \E i \in SendIds : Tick(i)
  \/ \E j \in ResetIds : ClearSettles(j)

SpecHandler == Init /\ [][NextHandler]_vars

\* the request of the send i settles, one way or another
ChatSettles(i) == ChatThrows(i) \/ ChatRefused(i) \/ ChatAnswered(i)

\* the page with a backend that answers (or fails) every POST /api/chat and
\* every clear request, and a browser that fires every timer set at line 116
FairSpec ==
  /\ Spec
  /\ \A i \in 1 .. MaxSends :
       /\ WF_vars(i \in SendIds /\ ChatSettles(i))
       /\ WF_vars(i \in SendIds /\ Tick(i))
  /\ \A j \in 1 .. MaxResets : WF_vars(j \in ResetIds /\ ClearSettles(j))

\* ------------------------------------------------------------- properties
\* the steps in which a send's success response is handled
SuccessHandled == {"sendShown", "sendEmptyReply", "sendTyping"}
\* the steps that settle a successful send: nothing of it is left to run
SuccessSettled == {"sendShown", "sendEmptyReply", "sendTyped"}

\* the send the last step belongs to
LastSend == sends[last.i]

\* the history field of the response to the send s, as a set
Returned(s) == TheOne(s.body).history

\* C1: the displayed transcript is the last transcript received from the
\* backend for the session (empty if none was), or that transcript followed
\* by one user message, or by one user message and one assistant message.
\* The code breaks it: a response, a rollback or a timer tick of one call
\* overwrites what another call has put on display in the meantime.
C1_TranscriptShape ==
  /\ Len(messages) \in Len(auth) .. (Len(auth) + 2)
  /\ SubSeq(messages, 1, Len(auth)) = auth
  /\ Len(messages) > Len(auth) => messages[Len(auth) + 1].role = "user"
  /\ Len(messages) = Len(auth) + 2 => messages[Len(auth) + 2].role = "assistant"

\* C2, as claimed: a settled send leaves the transcript it started from
\* extended by one user and one assistant message (success) or unchanged
\* (failure).  The code breaks it for a success response whose history does
\* not end in an assistant message.
C2_PairOrNothing ==
  /\ last.op \in SuccessSettled =>
       /\ Len(messages) = Len(LastSend.previousMessages) + 2
       /\ SubSeq(messages, 1, Len(messages) - 1) = LastSend.optimistic
       /\ messages[Len(messages)].role = "assistant"
  /\ last.op = "sendFailed" => messages = LastSend.previousMessages

\* C2, amended: a settled successful send leaves the history its response
\* returned (the pre-call transcript plus the user message when the response
\* has no history), which is the pre-call transcript extended by the
\* user/assistant pair exactly when the backend returned that; a failed send
\* leaves the pre-call transcript.
C2_ReturnedOrNothing ==
  /\ last.op \in SuccessSettled =>
       messages = IF Returned(LastSend) = {}
                  THEN Append(LastSend.previousMessages,
                              Msg("user", LastSend.userMessage))
                  ELSE TheOne(Returned(LastSend))
  /\ last.op = "sendFailed" => messages = LastSend.previousMessages

\* a send that failed after the page had loaded an earlier transcript
C2_Witness ==
  /\ last.op = "sendFailed"
  /\ LastSend.previousMessages = EarlierHistory
  /\ messages = EarlierHistory

\* C3: once the animation of a send has consumed the reply (or at once, when
\* there is nothing to animate), the transcript is exactly the history the
\* success response carried, whatever was rendered in between.
C3_ConvergesToHistory ==
  (last.op \in SuccessSettled /\ Returned(LastSend) # {}) =>
     messages = TheOne(Returned(LastSend))

\* an animation that typed a whole reply and ended on a history that is not
\* the optimistic transcript plus the reply
C3_Witness ==
  /\ last.op = "sendTyped"
  /\ LastSend.index = MaxReplyLen
  /\ Returned(LastSend) # {}
  /\ messages # Append(LastSend.optimistic, Msg("assistant", LastSend.typedBot))

\* C4: right after a failed send is handled the transcript is the snapshot
\* taken when the send started, that snapshot is the last transcript received
\* from the backend (empty if none was), and loading is false.  The code
\* breaks the second part: the snapshot is whatever was on display.
C4_RestoredToAuthoritative ==
  last.op = "sendFailed" =>
    /\ messages = LastSend.previousMessages
    /\ LastSend.previousMessages = auth
    /\ loading = FALSE

\* C5: the outcome of a send's request decides the error shown once it is
\* handled: the overload message for 503, the generic message for any other
\* non-ok status, the network message for an exception, none for a success;
\* and the overload message is on display only after a 503.
C5_ErrorByOutcome ==
  /\ (last.op = "sendFailed" /\ LastSend.outcome = "status") =>
       error = IF LastSend.status = 503
               THEN "Gemini API is overloaded. Please try again in a few seconds."
               ELSE "Something went wrong. Please try again."
  /\ (last.op = "sendFailed" /\ LastSend.outcome = "throw") =>
       error = "Network error. Please try again."
  /\ last.op \in SuccessHandled => error = ""
  /\ error = "Gemini API is overloaded. Please try again in a few seconds." =>
       \E i \in SendIds : sends[i].outcome = "status" /\ sends[i].status = 503

\* a 500 handled after an earlier 503
C5_Witness ==
  /\ last.op = "sendFailed"
  /\ LastSend.outcome = "status"
  /\ LastSend.status = 500
  /\ \E i \in SendIds : sends[i].status = 503

\* text that is empty or is white space only
IsBlank(text) == \A n \in 1 .. Len(text) : text[n] = " "

\* the steps that are a call of handleSend
SendCalled == {"sendIgnored", "sendStarted"}

\* C6: a call of handleSend with blank or white-space-only input, or with an
\* empty session id, changes neither the transcript, the error, loading nor
\* the input, and issues no request.
C6_BlankSendIsNoOp ==
  [][(last'.op \in SendCalled /\ (IsBlank(input) \/ sessionId = <<>>)) =>
       UNCHANGED <<messages, error, loading, input, requests, sends>>]_vars

\* a white-space-only send ignored while an error and a transcript are on
\* display
C6_Witness ==
  /\ last.op = "sendIgnored"
  /\ input = <<" ">>
  /\ sessionId # <<>>
  /\ error # ""
  /\ messages # <<>>

\* the number a string of decimal digits denotes
DigitValue(c) == (CHOOSE d \in 1 .. 10 : DigitChars[d] = c) - 1

RECURSIVE ParseDigits(_)
ParseDigits(text) ==
  IF text = <<>> THEN 0
  ELSE (10 * ParseDigits(SubSeq(text, 1, Len(text) - 1)))
         + DigitValue(text[Len(text)])

\* a string of 6 decimal digits denoting a number in 100000 .. 999999
SixDigitId(text) ==
  /\ Len(text) = 6
  /\ \A n \in 1 .. 6 : \E d \in 1 .. 10 : DigitChars[d] = text[n]
  /\ ParseDigits(text) \in 100000 .. 999999

\* C7: when a reset completes the transcript and the error are empty and the
\* session id is a 6-digit id, the same in memory and in localStorage,
\* however the clear request settled.
C7_ResetDone ==
  last.op = "resetDone" =>
    /\ messages = <<>>
    /\ error = ""
    /\ SixDigitId(sessionId)
    /\ localStorage = {<<"sessionId", sessionId>>}

\* a reset whose clear request threw, completed with a new id after a send
\* had failed
C7_Witness ==
  /\ last.op = "resetDone"
  /\ last.how = "throw"
  /\ resets[last.i].sessionId # sessionId
  /\ \E i \in SendIds : sends[i].outcome = "status"

\* C8: the mount effect takes the id localStorage holds, and only when there
\* is none generates a 6-digit id and stores it; from then on, resets
\* included, the id in memory is the id in localStorage.
C8_SessionIdPersisted ==
  /\ [](mounted => /\ sessionId # <<>>
                   /\ localStorage = {<<"sessionId", sessionId>>})
  /\ [][(~mounted /\ mounted') =>
          IF localStorage = {}
          THEN SixDigitId(sessionId')
          ELSE <<"sessionId", sessionId'>> \in localStorage
               /\ localStorage' = localStorage]_vars

\* a reset completed on a page that had generated its first id at mount
C8_Witness ==
  /\ mounted
  /\ last.op = "resetDone"
  /\ hist.id # TheOne(EarlierIds)
  /\ sessionId # hist.id

\* C9: a failed history fetch writes neither the transcript nor the error
\* (both stay empty when nothing else wrote them); a successful one sets the
\* transcript to the returned history, in its order.
C9_HistoryFetch ==
  /\ [][last'.op = "historyFailed" => UNCHANGED <<messages, error>>]_vars
  /\ []((last.op = "historyFailed" /\ sends = <<>> /\ resets = <<>>) =>
          (messages = <<>> /\ error = ""))
  /\ [](last.op = "historyLoaded" =>
          messages = IF TheOne(hist.body).history = {} THEN <<>>
                     ELSE TheOne(TheOne(hist.body).history))

\* the earlier transcript, loaded over the optimistic message of a send
C9_Witness ==
  /\ last.op = "historyLoaded"
  /\ messages = EarlierHistory
  /\ sends # <<>>

\* C10: the error is one slot.  It becomes non-empty, or changes to another
\* message, only when a send fails; it is empty once a success response has
\* been handled and once a reset has completed.
C10_ErrorSlot ==
  /\ [][(error' # error /\ error' # "") => last'.op = "sendFailed"]_vars
  /\ [](last.op \in (SuccessHandled \cup {"resetDone"}) => error = "")

\* a reset completed after two failed sends with different errors
C10_Witness ==
  /\ last.op = "resetDone"
  /\ error = ""
  /\ \E i, j \in SendIds : /\ sends[i].outcome = "throw"
                           /\ sends[j].outcome = "status"

\* the steps a send takes from one state to the next: a request that is
\* outstanding either fails (transcript rolled back, an error shown) or is
\* answered and then animates or is done; an animation goes on or ends; a
\* finished send takes no further step
SendStepOk(i) ==
  /\ sends[i].pc = "fetch" =>
       \/ sends'[i] = sends[i]
       \/ /\ sends'[i].pc = "done"
          /\ sends'[i].outcome \in {"status", "throw"}
          /\ messages' = sends[i].previousMessages
          /\ error' # ""
          /\ ~loading'
       \/ /\ sends'[i].pc \in {"anim", "done"}
          /\ sends'[i].outcome = "ok"
          /\ ~loading'
  /\ sends[i].pc = "anim" =>
       /\ sends'[i].pc \in {"anim", "done"}
       /\ sends'[i].outcome = "ok"
  /\ sends[i].pc = "done" => sends'[i] = sends[i]

\* C11: an accepted send goes idle -> sending -> (error, rolled back |
\* animating -> idle): it starts with its request outstanding, animates only
\* after a success response, never leaves the finished state, and, with a
\* backend that answers and timers that fire, reaches a state where it is
\* finished and loading is false.
C11_SendLifecycle ==
  /\ [][/\ \A i \in SendIds : SendStepOk(i)
        /\ Len(sends') # Len(sends) =>
             /\ Len(sends') = Len(sends) + 1
             /\ sends'[Len(sends')].pc = "fetch"
             /\ loading']_vars
  /\ \A i \in 1 .. MaxSends :
       (i \in SendIds) ~> (i \in SendIds /\ sends[i].pc = "done" /\ ~loading)

\* a second send that failed while the first one was still animating, which
\* then finished
C11_Witness ==
  /\ last.op = "sendTyped"
  /\ last.i = 1
  /\ Len(sends) = 2
  /\ sends[2].outcome = "status"
  /\ ~loading

\* C12: no request is retried: there is one POST /api/chat per accepted
\* send, one history fetch per mount and at most one clear request per
\* reset, however the requests settled.
C12_NoRetry ==
  /\ requests.chat = Len(sends)
  /\ requests.history = IF mounted THEN 1 ELSE 0
  /\ requests.clear <= Len(resets)

\* everything has failed: the history fetch, two sends and the clear request
C12_Witness ==
  /\ hist.pc = "done" /\ hist.body = {}
  /\ Len(sends) = 2
  /\ \A i \in SendIds : sends[i].outcome \in {"status", "throw"}
  /\ last.op = "resetDone" /\ last.how = "throw"

\* the transcript of the send s with the first n characters of its reply typed
Typed(s, n) ==
  Append(s.optimistic, Msg("assistant", SubSeq(s.fullText, 1, n)))

\* C13: right after each step of a typing animation the transcript is the
\* optimistic transcript followed by an assistant message holding a prefix of
\* the reply (the content of the last message of the returned history); a
\* tick makes the prefix one character longer, and the tick that finds the
\* whole reply typed puts the returned history on display and ends the
\* animation.
C13_TypingPrefix ==
  /\ [](last.op \in {"sendTyping", "tick"} =>
          /\ LastSend.pc = "anim"
          /\ LastSend.fullText =
               LastSend.fullHistory[Len(LastSend.fullHistory)].content
          /\ LastSend.index \in 1 .. Len(LastSend.fullText)
          /\ messages = Typed(LastSend, LastSend.index))
  /\ [][\A i \in SendIds :
          (sends[i].pc = "anim" /\ sends'[i] # sends[i]) =>
             IF sends[i].index < Len(sends[i].fullText)
             THEN /\ sends'[i].pc = "anim"
                  /\ sends'[i].index = sends[i].index + 1
                  /\ messages' = Typed(sends[i], sends[i].index + 1)
             ELSE /\ sends'[i].pc = "done"
                  /\ messages' = sends[i].fullHistory]_vars

\* the whole reply is typed, the timer is still set, and the transcript is
\* not yet the returned history
C13_Witness ==
  /\ last.op = "tick"
  /\ LastSend.pc = "anim"
  /\ LastSend.index = Len(LastSend.fullText)
  /\ messages # LastSend.fullHistory

\* C14: loading is true and the error empty right after an accepted send
\* starts, loading is true as long as a POST /api/chat is outstanding, and it
\* is false right after the response or the failure is handled, also when the
\* animation has only begun.
C14_LoadingFollowsRequest ==
  /\ last.op = "sendStarted" => (loading /\ error = "")
  /\ (\E i \in SendIds : sends[i].pc = "fetch") => loading
  /\ last.op \in (SuccessHandled \cup {"sendFailed"}) => ~loading

\* the response was handled and the animation has a character left to type
C14_Witness ==
  /\ last.op = "sendTyping"
  /\ LastSend.index < Len(LastSend.fullText)
  /\ ~loading

\* C15: with sends started through the send button, at most one POST
\* /api/chat is outstanding, also while a reset is in progress or done.
C15_OneSendOutstanding ==
  Cardinality({i \in SendIds : sends[i].pc = "fetch"}) <= 1

\* a second send outstanding, started while a reset was waiting for its clear
\* request and the first send was animating
C15_Witness ==
  /\ Len(sends) = 2
  /\ sends[1].pc = "anim"
  /\ sends[2].pc = "fetch"
  /\ last.op = "sendStarted"
  /\ \E j \in ResetIds : resets[j].pc = "clear"

\* C16: a failed send and an ignored send leave the input as it is; apart
\* from the user's typing, the input changes only when a success response
\* with an assistant reply is handled.
C16_InputKeptOnFailure ==
  [][/\ last'.op \in {"sendFailed", "sendIgnored"} => input' = input
     /\ input' # input =>
          /\ last'.op \in {"input", "sendTyping", "sendEmptyReply"}
          /\ last'.op # "input" => input' = <<>>]_vars

\* a failed send whose text is still in the input field
C16_Witness ==
  /\ last.op = "sendFailed"
  /\ input = LastSend.userMessage
  /\ messages = LastSend.previousMessages

\* C17: a reset issues its clear request, addressed to the session id current
\* at that moment, and writes nothing else; only when that request has
\* settled, however it settled, the new id is generated, stored and made
\* current and the transcript and the error are cleared, with no further
\* request; and, with a backend that answers or fails, every reset finishes.
C17_ResetOrder ==
  /\ [][/\ last'.op = "resetStarted" =>
             /\ resets'[last'.i].pc = "clear"
             /\ resets'[last'.i].sessionId = sessionId
             /\ requests'.clear = requests.clear + 1
             /\ UNCHANGED <<sessionId, localStorage, messages, error>>
        /\ (last'.op = "resetDone" /\ last' # last) =>
             /\ resets[last'.i].pc = "clear"
             /\ resets'[last'.i].sessionId = resets[last'.i].sessionId
             /\ requests' = requests
             /\ localStorage' = {<<"sessionId", sessionId'>>}
             /\ messages' = <<>>
             /\ error' = ""
        /\ sessionId' # sessionId => last'.op \in {"mount", "resetDone"}]_vars
  /\ \A j \in 1 .. MaxResets :
       (j \in ResetIds) ~> (j \in ResetIds /\ resets[j].pc = "done")

\* a reset finished with a new id after its clear request to the old id threw,
\* over a transcript and an error that were on display
C17_Witness ==
  /\ last.op = "resetDone"
  /\ last.how = "throw"
  /\ resets[last.i].sessionId # sessionId
  /\ requests.clear = 1
  /\ \E i \in SendIds : sends[i].outcome = "throw"

\* the steps a send takes after it was accepted
SendSteps ==
  {"sendFailed", "sendShown", "sendEmptyReply", "sendTyping", "tick",
   "sendTyped"}

\* a reset has finished
SomeResetDone == \E j \in ResetIds : resets[j].pc = "done"

\* the send i was accepted before a reset that has finished
StartedBeforeReset(i) ==
  \E j \in ResetIds : resets[j].pc = "done" /\ i <= resets[j].sendsBefore

\* C18: once a reset has finished, a step of a send accepted before it, and
\* the history fetch of the mount effect, write neither the transcript nor
\* the error.  The code breaks it: the continuations of handleSend and
\* fetchHistory and the animation's timer run to their end whatever the
\* session is by then.
C18_NoStaleWrites ==
  [][(\/ last'.op \in SendSteps /\ StartedBeforeReset(last'.i)
      \/ last'.op \in {"historyLoaded", "historyFailed"} /\ SomeResetDone)
       => UNCHANGED <<messages, error>>]_vars

\* C19: a send accepted while an earlier animation is running does not take
\* a partially typed assistant message into its rollback snapshot, and once
\* two successful sends have both finished the transcript is the history
\* returned for the second.  The code breaks both: the snapshot is the
\* transcript on display, and the animation that ends last writes its own
\* history.
C19_SecondSendDuringAnimation ==
  /\ last.op = "sendStarted" =>
       ~\E j \in SendIds :
           /\ sends[j].pc = "anim"
           /\ sends[j].index < Len(sends[j].fullText)
           /\ LastSend.previousMessages = Typed(sends[j], sends[j].index)
  /\ (/\ Len(sends) = 2
      /\ \A i \in SendIds : sends[i].pc = "done" /\ sends[i].outcome = "ok"
      /\ last.op \in SuccessSettled) =>
       messages = sends[2].fullHistory

\* C19, its second part alone
C19_SecondHistoryWins ==
  (/\ Len(sends) = 2
   /\ \A i \in SendIds : sends[i].pc = "done" /\ sends[i].outcome = "ok"
   /\ last.op \in SuccessSettled) =>
    messages = sends[2].fullHistory

====
